---- MODULE Spec2Model ----
(***************************************************************************)
(* Model of src/app/main.py, the Streamlit dashboard script of the solar   *)
(* farm analysis repository.                                               *)
(*                                                                         *)
(* One script run is a walk of pc through the statements of main.py, top   *)
(* to bottom.  Between runs the user changes one widget (or the uploaded   *)
(* file) and Streamlit runs the script again from line 1.  The widget      *)
(* values are the only state Streamlit keeps between runs.                 *)
(*                                                                         *)
(* A CSV file is a header (a set of column names) and a sequence of rows   *)
(* of cell texts.  A dataframe is the header, a dtype per column and a     *)
(* sequence of rows of cells.  A cell is <<kind, text>>: a number, a       *)
(* string, or the missing value NaN.                                       *)
(*                                                                         *)
(* The library calls are modelled by what they do in pandas 2 (a text      *)
(* column has dtype object) and Streamlit 1.x.  Not modelled: bool and     *)
(* datetime columns, the row index labels, and failures inside matplotlib  *)
(* or seaborn while drawing.                                               *)
(***************************************************************************)
EXTENDS Integers, Sequences, FiniteSets, TLC

VARIABLES
    uploaded_file,    \* line 17: the file in the uploader, or NoFile
    radio,            \* session value of the missing-value radio (line 40)
    show_clean,       \* session value of the sidebar checkbox (line 69)
    bins,             \* session value of the bin slider (line 94)
    file_pos,         \* read position of the uploaded file's buffer
    line_sel,         \* session state of the line chart multiselect (line 83)
    corr_sel,         \* session state of the correlation multiselect (line 103)
    rendered,         \* the widgets built so far in this run
    pc,               \* the statement the run is at
    data,             \* the dataframe bound to `data` (line 21 onwards)
    handle_missing,   \* the value the radio returned in this run (line 40)
    steps,            \* the steps this run has executed, in order
    shown,            \* the messages and prompts on the page
    dtype_report,     \* what line 56 wrote
    preview,          \* what line 72 wrote
    charts,           \* the charts drawn, with the table each one saw
    refs              \* <<widget, column>>: column names handed to chart widgets

vars == <<uploaded_file, file_pos, radio, show_clean, bins, line_sel, corr_sel, rendered,
          pc, data, handle_missing, steps, shown, dtype_report, preview,
          charts, refs>>

-----------------------------------------------------------------------------
(* Bounds of the model *)

\* the longest CSV, in rows
MaxRows == 3

\* the largest CSV, in data cells (rows times columns)
MaxCells == 3

-----------------------------------------------------------------------------
(* Program constants *)

\* line 94: st.slider(min_value=5, max_value=50, value=20)
MinBins == 5

MaxBins == 50

DefaultBins == 20

\* lines 25, 72: DataFrame.head() keeps the first five rows
HeadRows == 5

\* the column names main.py refers to (lines 84, 92, 115)
ColNames == {"GHI", "DNI", "DHI", "WD", "WS"}

\* line 84: default=["GHI", "DNI", "DHI"]
LineDefault == {"GHI", "DNI", "DHI"}

\* line 42: the options of the radio; the first is the default
RadioOptions == {"No action", "Forward fill", "Drop rows with missing values"}

RadioDefault == "No action"

-----------------------------------------------------------------------------
(* CSV texts and cells *)

\* a number, a text that is no number, and a text read_csv takes as missing
CellTexts == {"1", "x", "NA"}

NumericTexts == {"1"}

MissingTexts == {"NA"}

NaN == <<"nan", "">>

NoFile == [cols |-> {}, rows |-> <<>>]

NoTable == [cols |-> {}, dtype |-> <<>>, rows |-> <<>>]

Min(a, b) == IF a < b THEN a ELSE b

RowLimit(cs) == Min(MaxRows, MaxCells \div Cardinality(cs))

\* the columns in the order a sensor export writes them
ColOrder == <<"GHI", "DNI", "DHI", "WD", "WS">>

\* the headers a user's CSV may have: the export with columns cut off at
\* its right end or at its left end
Headers ==
    { {ColOrder[i] : i \in 1..k} : k \in 1..Len(ColOrder) } \cup
    { {ColOrder[i] : i \in k..Len(ColOrder)} : k \in 1..Len(ColOrder) }

\* the CSV files a user may upload: one of the headers, any cell texts
UploadFiles ==
    UNION { UNION { { [cols |-> cs, rows |-> r] : r \in [1..n -> [cs -> CellTexts]] }
                    : n \in 0..RowLimit(cs) }
            : cs \in Headers }

\* the slider positions a user tries
BinChoices == {MinBins, DefaultBins, MaxBins}

-----------------------------------------------------------------------------
(* pandas: read_csv, isnull, ffill, dropna, to_numeric, astype, head *)

\* line 21: the dtype read_csv infers for column c
InferDtype(f, c) ==
    IF Len(f.rows) = 0 THEN "object"
    ELSE IF \A i \in 1..Len(f.rows) :
               f.rows[i][c] \in NumericTexts \cup MissingTexts
         THEN "number"
         ELSE "object"

\* line 21: a cell text as read_csv stores it in a column of dtype dt
ParseCell(t, dt) ==
    IF t \in MissingTexts THEN NaN
    ELSE IF dt = "number" THEN <<"num", t>>
    ELSE <<"str", t>>

\* line 21: pd.read_csv(uploaded_file)
ReadCsv(f) ==
    [cols  |-> f.cols,
     dtype |-> [c \in f.cols |-> InferDtype(f, c)],
     rows  |-> [i \in 1..Len(f.rows) |->
                  [c \in f.cols |-> ParseCell(f.rows[i][c], InferDtype(f, c))]]]

\* column c of dataframe d, as a sequence of cells
Column(d, c) == [i \in 1..Len(d.rows) |-> d.rows[i][c]]

\* the test written as >= 0, which every table passes
HasMissingAlways(d) == TRUE

\* lines 34-35: data.isnull().sum().sum() > 0
HasMissing(d) ==
    \E i \in 1..Len(d.rows) : \E c \in d.cols : d.rows[i][c] = NaN

RECURSIVE FfillColumn(_)
RECURSIVE BfillColumn(_)

\* a backward fill, which takes the next value instead of the previous one
BfillColumn(s) ==
    IF Len(s) <= 1 THEN s
    ELSE LET t == BfillColumn(Tail(s))
         IN  <<IF Head(s) = NaN THEN Head(t) ELSE Head(s)>> \o t

\* line 46: one column under DataFrame.ffill: a missing cell takes the cell
\* above it, after that one was filled
FfillColumn(s) ==
    IF Len(s) <= 1 THEN s
    ELSE LET p    == FfillColumn(SubSeq(s, 1, Len(s) - 1))
             last == s[Len(s)]
         IN  Append(p, IF last = NaN THEN p[Len(p)] ELSE last)

\* line 46: data.ffill(inplace=True)
Ffill(d) ==
    [d EXCEPT !.rows = [i \in 1..Len(d.rows) |->
                          [c \in d.cols |-> FfillColumn(Column(d, c))[i]]]]

RowComplete(r) == \A c \in DOMAIN r : r[c] # NaN

RowNotAllMissing(r) == \E c \in DOMAIN r : r[c] # NaN

\* dropna(how="all"), which keeps a row that has any value
DropNaAll(d) == [d EXCEPT !.rows = SelectSeq(d.rows, RowNotAllMissing)]

\* line 49: data.dropna(inplace=True)
DropNa(d) == [d EXCEPT !.rows = SelectSeq(d.rows, RowComplete)]

\* lines 45-50: the branch the radio's value selects
ApplyChoice(d, choice) ==
    IF choice = "Forward fill" THEN Ffill(d)
    ELSE IF choice = "Drop rows with missing values" THEN DropNa(d)
    ELSE d

\* line 62: pd.to_numeric(..., errors='coerce') on one cell
ToNumericCell(x) ==
    IF x[1] = "str"
    THEN IF x[2] \in NumericTexts THEN <<"num", x[2]>> ELSE NaN
    ELSE x

\* line 62: with errors='coerce' an unparsable value becomes NaN and
\* no ValueError is raised
ToNumericRaises(s) == FALSE

\* line 65: astype(str) on one cell
AsTypeStrCell(x) == IF x = NaN THEN <<"str", "nan">> ELSE <<"str", x[2]>>

\* lines 61-65: the try / except of one object column
CoerceCell(d, c, x) ==
    IF ToNumericRaises(Column(d, c)) THEN AsTypeStrCell(x) ELSE ToNumericCell(x)

CoerceDtype(d, c) ==
    IF ToNumericRaises(Column(d, c)) THEN "object" ELSE "number"

\* line 59: data.select_dtypes(include='object').columns
ObjectColumns(d) == {c \in d.cols : d.dtype[c] = "object"}

\* lines 59-65: the coercion loop
Coerce(d) ==
    [cols  |-> d.cols,
     dtype |-> [c \in d.cols |->
                  IF c \in ObjectColumns(d) THEN CoerceDtype(d, c) ELSE d.dtype[c]],
     rows  |-> [i \in 1..Len(d.rows) |->
                  [c \in d.cols |->
                     IF c \in ObjectColumns(d)
                     THEN CoerceCell(d, c, d.rows[i][c])
                     ELSE d.rows[i][c]]]]

\* lines 25, 72: data.head()
HeadOf(d) == SubSeq(d.rows, 1, Min(HeadRows, Len(d.rows)))

\* line 82: data.select_dtypes(include='number').columns.tolist()
NumericColumns(d) == {c \in d.cols : d.dtype[c] = "number"}

-----------------------------------------------------------------------------
(* Streamlit widgets *)

\* nothing written yet
NoReport == <<>>

NoPreview == <<>>

\* the state of a multiselect nobody has touched
Untouched == {}

\* lines 83, 103: the value st.multiselect returns.  A stored selection
\* belongs to the widget with the same options; a widget with other options
\* is a new widget and returns its default.
MultiselectValue(stored, options, default) ==
    IF \E s \in stored : s.opts = options
    THEN (CHOOSE s \in stored : s.opts = options).val
    ELSE default

\* lines 83-85: st.multiselect raises StreamlitAPIException when a default
\* value is not one of the options
MultiselectRaises(options, default) == ~(default \subseteq options)

\* the buffer a rerun would get if Streamlit handed back the consumed one
BufferKept == file_pos

\* line 17: st.file_uploader hands every run the file rewound to its start
BufferAtRerun == "start"

\* the script order with the dtype report moved after the coercion loop
NextStepSwapped(p) ==
    CASE p = "load"           -> "overview"
      [] p = "overview"       -> "missing_report"
      [] p = "missing_report" -> "handle_missing"
      [] p = "handle_missing" -> "coerce"
      [] p = "coerce"         -> "dtypes"
      [] p = "dtypes"         -> "preview"
      [] p = "preview"        -> "line_chart"
      [] p = "line_chart"     -> "histogram"
      [] p = "histogram"      -> "correlation"
      [] p = "correlation"    -> "wind"
      [] p = "wind"           -> "about"
      [] p = "awaiting"       -> "eda_locked"
      [] p = "eda_locked"     -> "about"
      [] p = "about"          -> "done"

\* lines 19-130: the statement that follows step p in the script
NextStep(p) ==
    CASE p = "load"           -> "overview"
      [] p = "overview"       -> "missing_report"
      [] p = "missing_report" -> "handle_missing"
      [] p = "handle_missing" -> "dtypes"
      [] p = "dtypes"         -> "coerce"
      [] p = "coerce"         -> "preview"
      [] p = "preview"        -> "line_chart"
      [] p = "line_chart"     -> "histogram"
      [] p = "histogram"      -> "correlation"
      [] p = "correlation"    -> "wind"
      [] p = "wind"           -> "about"
      [] p = "awaiting"       -> "eda_locked"
      [] p = "eda_locked"     -> "about"
      [] p = "about"          -> "done"

Idle == pc \in {"done", "crashed"}

Uploaded == uploaded_file # NoFile

-----------------------------------------------------------------------------
(* The state after construction: the page is open, nothing is uploaded and *)
(* the first run is about to start.                                        *)

Init ==
    /\ uploaded_file = NoFile
    /\ file_pos = "start"
    /\ radio = RadioDefault
    /\ show_clean = FALSE
    /\ bins = DefaultBins
    /\ line_sel = Untouched
    /\ corr_sel = Untouched
    /\ rendered = {}
    /\ pc = "start"
    /\ data = NoTable
    /\ handle_missing = "unset"
    /\ steps = <<>>
    /\ shown = {}
    /\ dtype_report = NoReport
    /\ preview = NoPreview
    /\ charts = {}
    /\ refs = {}

\* step p is done: log it and move to the statement after it
Done(p) == steps' = Append(steps, p) /\ pc' = NextStep(p)

\* an uncaught exception ends the run; Streamlit shows the traceback
Crash(p) ==
    /\ steps' = Append(steps, p)
    /\ pc' = "crashed"
    /\ shown' = shown \cup {"exception"}

-----------------------------------------------------------------------------
(* One script run *)

\* lines 8-19: page set-up, the uploader, and the test of uploaded_file
BeginRun ==
    /\ pc = "start"
    /\ rendered' = {"upload"}
    /\ file_pos' = IF Uploaded THEN BufferAtRerun ELSE file_pos
    /\ pc' = IF Uploaded THEN "load" ELSE "awaiting"
    /\ UNCHANGED <<uploaded_file, radio, show_clean, bins, line_sel, corr_sel,
                   data, handle_missing, steps, shown, dtype_report, preview,
                   charts, refs>>

\* lines 20-25: read the file and show the first rows.  read_csv reads from
\* the buffer's position to its end; at the end it finds no columns and
\* raises EmptyDataError.
Load ==
    /\ pc = "load"
    /\ IF file_pos = "start"
       THEN /\ data' = ReadCsv(uploaded_file)
            /\ shown' = shown \cup {"raw_preview"}
            /\ Done("load")
       ELSE /\ Crash("load")
            /\ UNCHANGED data
    /\ file_pos' = "end"
    /\ UNCHANGED <<uploaded_file, radio, show_clean, bins, line_sel, corr_sel,
                   rendered, handle_missing, dtype_report, preview, charts, refs>>

\* lines 27-30: shape and column list
Overview ==
    /\ pc = "overview"
    /\ shown' = shown \cup {"shape", "columns"}
    /\ Done("overview")
    /\ UNCHANGED <<uploaded_file, file_pos, radio, show_clean, bins, line_sel,
                   corr_sel, rendered, data, handle_missing, dtype_report,
                   preview, charts, refs>>

\* lines 32-37 and 51-52: the missing-value report
MissingReport ==
    /\ pc = "missing_report"
    /\ steps' = Append(steps, "missing_report")
    /\ IF HasMissing(data)
       THEN /\ shown' = shown \cup {"missing_counts"}
            /\ pc' = NextStep("missing_report")
       ELSE /\ shown' = shown \cup {"no_missing"}
            /\ pc' = NextStep("handle_missing")
    /\ UNCHANGED <<uploaded_file, file_pos, radio, show_clean, bins, line_sel,
                   corr_sel, rendered, data, handle_missing, dtype_report,
                   preview, charts, refs>>

\* lines 39-50: the radio and the branch it selects
HandleMissing ==
    /\ pc = "handle_missing"
    /\ rendered' = rendered \cup {"radio"}
    /\ handle_missing' = radio
    /\ data' = ApplyChoice(data, radio)
    /\ shown' = shown \cup {"missing_prompt"} \cup
                  (IF radio = "Forward fill" THEN {"filled"}
                   ELSE IF radio = "Drop rows with missing values" THEN {"dropped"}
                   ELSE {})
    /\ Done("handle_missing")
    /\ UNCHANGED <<uploaded_file, file_pos, radio, show_clean, bins, line_sel,
                   corr_sel, dtype_report, preview, charts, refs>>

\* lines 54-56: st.write(data.dtypes)
DtypeReport ==
    /\ pc = "dtypes"
    /\ dtype_report' = data.dtype
    /\ Done("dtypes")
    /\ UNCHANGED <<uploaded_file, file_pos, radio, show_clean, bins, line_sel,
                   corr_sel, rendered, data, handle_missing, shown, preview,
                   charts, refs>>

\* lines 58-65: the coercion loop
CoerceStep ==
    /\ pc = "coerce"
    /\ data' = Coerce(data)
    /\ Done("coerce")
    /\ UNCHANGED <<uploaded_file, file_pos, radio, show_clean, bins, line_sel,
                   corr_sel, rendered, handle_missing, shown, dtype_report,
                   preview, charts, refs>>

\* lines 67-72: the sidebar checkbox and the cleaned-data preview
Preview ==
    /\ pc = "preview"
    /\ rendered' = rendered \cup {"show_clean"}
    /\ preview' = IF show_clean THEN HeadOf(data) ELSE NoPreview
    /\ Done("preview")
    /\ UNCHANGED <<uploaded_file, file_pos, radio, show_clean, bins, line_sel,
                   corr_sel, data, handle_missing, shown, dtype_report, charts,
                   refs>>

\* a chart, with the columns it draws and the rows of the table it was given
Chart(w, cols, b) == [w |-> w, cols |-> cols, rows |-> data.rows, bins |-> b]

\* lines 77-89: the line chart and its multiselect
LineChart ==
    /\ pc = "line_chart"
    /\ LET numeric_columns  == NumericColumns(data)
           selected_columns == MultiselectValue(line_sel, numeric_columns, LineDefault)
       IN  IF MultiselectRaises(numeric_columns, LineDefault)
           THEN /\ refs' = refs \cup {<<"line", c>> : c \in LineDefault}
                /\ Crash("line_chart")
                /\ UNCHANGED <<rendered, charts>>
           ELSE /\ refs' = refs \cup {<<"line", c>> : c \in LineDefault \cup selected_columns}
                /\ rendered' = rendered \cup {"line"}
                /\ IF selected_columns # {}
                   THEN /\ charts' = charts \cup {Chart("line", selected_columns, 0)}
                        /\ UNCHANGED shown
                   ELSE /\ shown' = shown \cup {"warn_line"}
                        /\ UNCHANGED charts
                /\ Done("line_chart")
    /\ UNCHANGED <<uploaded_file, file_pos, radio, show_clean, bins, line_sel,
                   corr_sel, data, handle_missing, dtype_report, preview>>

\* lines 91-99: the GHI histogram and its slider
Histogram ==
    /\ pc = "histogram"
    /\ IF "GHI" \in data.cols
       THEN /\ rendered' = rendered \cup {"bins"}
            /\ refs' = refs \cup {<<"hist", "GHI">>}
            /\ charts' = charts \cup {Chart("hist", {"GHI"}, bins)}
            /\ UNCHANGED shown
       ELSE /\ shown' = shown \cup {"warn_ghi"}
            /\ UNCHANGED <<rendered, refs, charts>>
    /\ Done("histogram")
    /\ UNCHANGED <<uploaded_file, file_pos, radio, show_clean, bins, line_sel,
                   corr_sel, data, handle_missing, dtype_report, preview>>

\* lines 101-112: the correlation heatmap and its multiselect
Correlation ==
    /\ pc = "correlation"
    /\ LET numeric_columns       == NumericColumns(data)
           selected_corr_columns == MultiselectValue(corr_sel, numeric_columns, numeric_columns)
       IN  /\ rendered' = rendered \cup {"corr"}
           /\ refs' = refs \cup {<<"corr", c>> : c \in numeric_columns \cup selected_corr_columns}
           /\ IF selected_corr_columns # {}
              THEN /\ charts' = charts \cup {Chart("corr", selected_corr_columns, 0)}
                   /\ UNCHANGED shown
              ELSE /\ shown' = shown \cup {"warn_corr"}
                   /\ UNCHANGED charts
    /\ Done("correlation")
    /\ UNCHANGED <<uploaded_file, file_pos, radio, show_clean, bins, line_sel,
                   corr_sel, data, handle_missing, dtype_report, preview>>

\* lines 114-123: the polar wind scatter
Wind ==
    /\ pc = "wind"
    /\ IF "WD" \in data.cols /\ "WS" \in data.cols
       THEN /\ refs' = refs \cup {<<"wind", "WD">>, <<"wind", "WS">>}
            /\ charts' = charts \cup {Chart("wind", {"WD", "WS"}, 0)}
            /\ UNCHANGED shown
       ELSE /\ shown' = shown \cup {"warn_wind"}
            /\ UNCHANGED <<refs, charts>>
    /\ Done("wind")
    /\ UNCHANGED <<uploaded_file, file_pos, radio, show_clean, bins, line_sel,
                   corr_sel, rendered, data, handle_missing, dtype_report, preview>>

\* lines 73-74: no file yet
AwaitUpload ==
    /\ pc = "awaiting"
    /\ shown' = shown \cup {"info_awaiting"}
    /\ Done("awaiting")
    /\ UNCHANGED <<uploaded_file, file_pos, radio, show_clean, bins, line_sel,
                   corr_sel, rendered, data, handle_missing, dtype_report,
                   preview, charts, refs>>

\* lines 125-126: no file yet
EdaLocked ==
    /\ pc = "eda_locked"
    /\ shown' = shown \cup {"info_eda_locked"}
    /\ Done("eda_locked")
    /\ UNCHANGED <<uploaded_file, file_pos, radio, show_clean, bins, line_sel,
                   corr_sel, rendered, data, handle_missing, dtype_report,
                   preview, charts, refs>>

\* lines 128-130: the sidebar 'About' block ends the script.  When a run
\* reaches its end Streamlit forgets the value of every widget the run did
\* not build, so that widget starts from its default when it is built again.
About ==
    /\ pc = "about"
    /\ shown' = shown \cup {"about"}
    /\ Done("about")
    /\ radio' = IF "radio" \in rendered THEN radio ELSE RadioDefault
    /\ show_clean' = IF "show_clean" \in rendered THEN show_clean ELSE FALSE
    /\ bins' = IF "bins" \in rendered THEN bins ELSE DefaultBins
    /\ line_sel' = IF "line" \in rendered THEN line_sel ELSE Untouched
    /\ corr_sel' = IF "corr" \in rendered THEN corr_sel ELSE Untouched
    /\ UNCHANGED <<uploaded_file, file_pos, rendered, data, handle_missing,
                   dtype_report, preview, charts, refs>>

-----------------------------------------------------------------------------
(* User interactions: each one changes a widget and starts a new run *)

\* Streamlit runs the script again from line 1 in a fresh namespace and
\* clears the page
Rerun ==
    /\ pc' = "start"
    /\ rendered' = {}
    /\ data' = NoTable
    /\ handle_missing' = "unset"
    /\ steps' = <<>>
    /\ shown' = {}
    /\ dtype_report' = NoReport
    /\ preview' = NoPreview
    /\ charts' = {}
    /\ refs' = {}

\* line 17: the user puts a file into the uploader
Upload ==
    /\ Idle
    /\ \E f \in UploadFiles :
          /\ f # uploaded_file
          /\ uploaded_file' = f
    /\ file_pos' = "start"
    /\ Rerun
    /\ UNCHANGED <<radio, show_clean, bins, line_sel, corr_sel>>

\* line 17: the user removes the file from the uploader
RemoveFile ==
    /\ Idle
    /\ Uploaded
    /\ uploaded_file' = NoFile
    /\ Rerun
    /\ UNCHANGED <<file_pos, radio, show_clean, bins, line_sel, corr_sel>>

\* line 40: the user picks another radio option
SetRadio ==
    /\ Idle
    /\ "radio" \in rendered
    /\ \E v \in RadioOptions \ {radio} : radio' = v
    /\ Rerun
    /\ UNCHANGED <<uploaded_file, file_pos, show_clean, bins, line_sel, corr_sel>>

\* line 69: the user ticks or unticks the checkbox
ToggleShowClean ==
    /\ Idle
    /\ "show_clean" \in rendered
    /\ show_clean' = ~show_clean
    /\ Rerun
    /\ UNCHANGED <<uploaded_file, file_pos, radio, bins, line_sel, corr_sel>>

\* line 94: the user moves the slider
SetBins ==
    /\ Idle
    /\ "bins" \in rendered
    /\ \E b \in BinChoices \ {bins} : bins' = b
    /\ Rerun
    /\ UNCHANGED <<uploaded_file, file_pos, radio, show_clean, line_sel, corr_sel>>

\* the selections a user tries in a multiselect: its default, nothing, or
\* one of its options alone
Selections(options, default) ==
    {default, {}} \cup {{c} : c \in options \cap {"GHI"}}

\* what Streamlit keeps of a selection: the options it was made from and
\* the value; a selection equal to the default reads like an untouched widget
Stored(options, default, v) ==
    IF v = default THEN Untouched ELSE {[opts |-> options, val |-> v]}

\* line 83: the user changes the line chart's columns
SetLine ==
    /\ Idle
    /\ "line" \in rendered
    /\ \E v \in Selections(uploaded_file.cols, LineDefault) :
          /\ v # MultiselectValue(line_sel, uploaded_file.cols, LineDefault)
          /\ line_sel' = Stored(uploaded_file.cols, LineDefault, v)
    /\ Rerun
    /\ UNCHANGED <<uploaded_file, file_pos, radio, show_clean, bins, corr_sel>>

\* line 103: the user changes the heatmap's columns
SetCorr ==
    /\ Idle
    /\ "corr" \in rendered
    /\ \E v \in Selections(uploaded_file.cols, uploaded_file.cols) :
          /\ v # MultiselectValue(corr_sel, uploaded_file.cols, uploaded_file.cols)
          /\ corr_sel' = Stored(uploaded_file.cols, uploaded_file.cols, v)
    /\ Rerun
    /\ UNCHANGED <<uploaded_file, file_pos, radio, show_clean, bins, line_sel>>

Next ==
    \/ BeginRun
    \/ Load
    \/ Overview
    \/ MissingReport
    \/ HandleMissing
    \/ DtypeReport
    \/ CoerceStep
    \/ Preview
    \/ LineChart
    \/ Histogram
    \/ Correlation
    \/ Wind
    \/ AwaitUpload
    \/ EdaLocked
    \/ About
    \/ Upload
    \/ RemoveFile
    \/ SetRadio
    \/ ToggleShowClean
    \/ SetBins
    \/ SetLine
    \/ SetCorr

Spec == Init /\ [][Next]_vars

\* the sessions in which the user leaves the chart widgets alone
NextCleaning ==
    \/ BeginRun
    \/ Load
    \/ Overview
    \/ MissingReport
    \/ HandleMissing
    \/ DtypeReport
    \/ CoerceStep
    \/ Preview
    \/ LineChart
    \/ Histogram
    \/ Correlation
    \/ Wind
    \/ AwaitUpload
    \/ EdaLocked
    \/ About
    \/ Upload
    \/ RemoveFile
    \/ SetRadio
    \/ ToggleShowClean

SpecCleaning == Init /\ [][NextCleaning]_vars

-----------------------------------------------------------------------------
(* What the properties below speak about *)

\* step p has been executed in this run
Did(p) == \E k \in 1..Len(steps) : steps[k] = p

\* the uploaded CSV text has a cell that reads as missing
FileHasMissing ==
    \E i \in 1..Len(uploaded_file.rows) : \E c \in uploaded_file.cols :
        uploaded_file.rows[i][c] \in MissingTexts

\* the table as loaded from the uploaded file
Raw == ReadCsv(uploaded_file)

\* the table after the missing-value block of this run
AfterHandle ==
    IF handle_missing = "unset" THEN Raw ELSE ApplyChoice(Raw, handle_missing)

\* the table the current file and the current radio value give
CleanedTable ==
    Coerce(IF FileHasMissing THEN ApplyChoice(Raw, radio) ELSE Raw)

\* the order of the steps as the specification lists them
ScriptOrder ==
    <<"load", "overview", "missing_report", "handle_missing", "dtypes", "coerce",
      "preview", "line_chart", "histogram", "correlation", "wind", "about">>

IsFillDrop(p) == p # "handle_missing"

\* the steps of a run on the uploaded file: fill/drop only when there is
\* something missing
ExpectedSteps ==
    IF FileHasMissing THEN ScriptOrder ELSE SelectSeq(ScriptOrder, IsFillDrop)

\* the rows of the loaded table that have no missing cell
CompleteRows ==
    {i \in 1..Len(Raw.rows) : \A c \in Raw.cols : Raw.rows[i][c] # NaN}

\* the nearest row above i whose cell in column c is not missing, 0 if none
NearestAbove(i, c) ==
    IF \E j \in 1..(i - 1) : Raw.rows[j][c] # NaN
    THEN CHOOSE j \in 1..(i - 1) :
            /\ Raw.rows[j][c] # NaN
            /\ \A k \in (j + 1)..(i - 1) : Raw.rows[k][c] = NaN
    ELSE 0

-----------------------------------------------------------------------------
(* The claims *)

\* C1: when a run on an uploaded file ends and the table lacks GHI, or lacks
\* WD or WS, the run has reached the 'About' block without an exception and
\* shows the warning for each absent column.
C1_MissingColumnsWarn ==
    (Idle /\ Uploaded) =>
        /\ ("GHI" \notin data.cols => pc = "done" /\ "warn_ghi" \in shown)
        /\ (~({"WD", "WS"} \subseteq data.cols) => pc = "done" /\ "warn_wind" \in shown)

\* C2: every column name handed to a chart widget is a column of the table,
\* and for the two multiselects one of the numeric columns.
C2_ChartColumnsExist ==
    \A r \in refs :
        /\ r[2] \in data.cols
        /\ (r[1] \in {"line", "corr"} => r[2] \in NumericColumns(data))

\* C3: after the coercion loop, every object column that held a value that
\* is no number is still an object column, holds the string form of each
\* value, and none of its values has become missing.
C3_CoercionFallsBackToString ==
    Did("coerce") =>
        \A c \in ObjectColumns(AfterHandle) :
            (\E i \in 1..Len(AfterHandle.rows) :
                /\ AfterHandle.rows[i][c][1] = "str"
                /\ AfterHandle.rows[i][c][2] \notin NumericTexts)
            => /\ data.dtype[c] = "object"
               /\ \A i \in 1..Len(AfterHandle.rows) :
                     /\ data.rows[i][c][1] = "str"
                     /\ (AfterHandle.rows[i][c] # NaN
                           => data.rows[i][c][2] = AfterHandle.rows[i][c][2])

\* C4: when a run on a file with a GHI column ends, the GHI histogram has
\* been drawn, with a bin count between 5 and 50.
C4_GhiRendersHistogram ==
    (Idle /\ Uploaded /\ "GHI" \in uploaded_file.cols) =>
        \E ch \in charts : ch.w = "hist" /\ ch.bins \in MinBins..MaxBins

\* C5: once the data quality block is done, the missing counts and the radio
\* prompt are on the page exactly when the file has a missing cell; a file
\* with none shows 'No missing values detected!' and neither fill nor drop
\* is applied to it.
C5_PromptIffMissing ==
    (Uploaded /\ Did("missing_report") /\ pc # "handle_missing") =>
        /\ ("missing_prompt" \in shown <=> FileHasMissing)
        /\ ("missing_counts" \in shown <=> FileHasMissing)
        /\ ("no_missing" \in shown <=> ~FileHasMissing)
        /\ (~FileHasMissing =>
              /\ handle_missing = "unset"
              /\ "filled" \notin shown
              /\ "dropped" \notin shown
              /\ Len(data.rows) = Len(uploaded_file.rows))

\* a file without a missing cell is loaded while the radio still holds
\* 'Drop rows' from the file before it
C5_Witness ==
    /\ Did("dtypes")
    /\ "no_missing" \in shown
    /\ radio = "Drop rows with missing values"
    /\ Len(data.rows) > 0

\* C6: the steps of a run on an uploaded file are executed in the fixed
\* order, none ahead of an earlier one; the dtype report shows the types
\* after fill/drop and before coercion; the preview and every chart see the
\* table after fill/drop and coercion.
C6_StepsInScriptOrder ==
    Uploaded =>
        /\ Len(steps) <= Len(ExpectedSteps)
        /\ \A k \in 1..Len(steps) : steps[k] = ExpectedSteps[k]
        /\ (Did("dtypes") => dtype_report = AfterHandle.dtype)
        /\ (Did("preview") /\ show_clean => preview = HeadOf(Coerce(AfterHandle)))
        /\ \A ch \in charts : ch.rows = Coerce(AfterHandle).rows

\* a whole run with a forward fill, an object column in the dtype report,
\* the preview and three charts
C6_Witness ==
    /\ pc = "done"
    /\ handle_missing = "Forward fill"
    /\ (\E c \in data.cols : dtype_report[c] = "object" /\ data.dtype[c] = "number")
    /\ show_clean
    /\ Len(preview) >= 1
    /\ Cardinality(charts) >= 3

\* C7: at the end of a run the table is the one the uploaded file and the
\* current radio value give, whatever was uploaded or selected before.
C7_TableFromFileAndWidgets ==
    (Idle /\ Uploaded) => data = CleanedTable

\* the radio is back at 'No action' in a later run on a file with missing
\* cells, and the table has all the rows of the file
C7_Witness ==
    /\ Idle
    /\ Uploaded
    /\ FileHasMissing
    /\ show_clean
    /\ handle_missing = "No action"
    /\ Len(data.rows) = Len(uploaded_file.rows)
    /\ Len(data.rows) >= 2

\* C8: right after a forward fill, a cell that was missing holds the value
\* of the nearest row above it that was not missing, or is still missing
\* when there is none; the other cells, the row count and the row order are
\* as before.
C8_ForwardFill ==
    (pc = "dtypes" /\ handle_missing = "Forward fill") =>
        /\ "filled" \in shown
        /\ data.cols = Raw.cols
        /\ Len(data.rows) = Len(Raw.rows)
        /\ \A i \in 1..Len(Raw.rows) : \A c \in Raw.cols :
              IF Raw.rows[i][c] # NaN THEN data.rows[i][c] = Raw.rows[i][c]
              ELSE IF NearestAbove(i, c) = 0 THEN data.rows[i][c] = NaN
              ELSE data.rows[i][c] = Raw.rows[NearestAbove(i, c)][c]

\* after a forward fill with its success message, one cell was filled from a
\* row above and another cell is still missing
C8_Witness ==
    /\ pc = "dtypes"
    /\ handle_missing = "Forward fill"
    /\ "filled" \in shown
    /\ \E i \in 1..Len(data.rows) : \E c \in data.cols : data.rows[i][c] = NaN
    /\ \E i \in 1..Len(data.rows) : \E c \in data.cols :
          Raw.rows[i][c] = NaN /\ data.rows[i][c] # NaN

\* C9: right after 'Drop rows with missing values' the table is exactly the
\* rows that had no missing cell, in their order and unchanged; after
\* 'No action' the table is as loaded.
C9_DropRows ==
    /\ (pc = "dtypes" /\ handle_missing = "Drop rows with missing values") =>
          /\ data.cols = Raw.cols
          /\ Len(data.rows) = Cardinality(CompleteRows)
          /\ \A i \in CompleteRows :
                data.rows[Cardinality({j \in CompleteRows : j <= i})] = Raw.rows[i]
    /\ (pc = "dtypes" /\ handle_missing = "No action") => data = Raw

\* after a drop, a complete row is kept and a row with a missing cell is gone
C9_Witness ==
    /\ pc = "dtypes"
    /\ handle_missing = "Drop rows with missing values"
    /\ Len(data.rows) >= 1
    /\ Len(data.rows) < Len(uploaded_file.rows)

\* C10: when 'Drop rows with missing values' was applied, the table after
\* the coercion loop, which the preview and the charts get, has no missing
\* cell.
C10_NoMissingAfterDrop ==
    (handle_missing = "Drop rows with missing values" /\ Did("coerce")) =>
        \A i \in 1..Len(data.rows) : \A c \in data.cols : data.rows[i][c] # NaN

====
